---- MODULE Spec2Model ----
(***************************************************************************)
(* BgmDownloader (source/utils/BgmDownloader.cpp): the caller thread's     *)
(* StartDownload / Cancel / SetCompletionCallback, the worker thread's     *)
(* PerformDownload with the transfer engine's progress callback, the       *)
(* temporary and destination files, and the std::thread handle.            *)
(* MusicPlayer (source/utils/MusicPlayer.cpp): the title and artist queries *)
(* with the ID3v2 frame search and the ID3v1 trailer read, LoadMusic on the *)
(* worker thread and Update on the application thread. SpecApp adds the    *)
(* application's GetError and a completion callback that calls             *)
(* SetCompletionCallback.                                                   *)
(***************************************************************************)
EXTENDS Integers, Sequences, FiniteSets

\* ------------------------------------------------------------- bounds
\* StartDownload calls explored in one process life.
MaxStarts == 2
\* Worker steps explored between the construction of the new std::thread and
\* the move-assignment that finds mDownloadThread still joinable.
MaxRaceSteps == 2
\* Chunks the transfer engine delivers for one complete response body.
Size == 2
\* Worker steps explored in that same window by SpecRace: enough for the new
\* worker to reach its first progress store (open, init, headers, progress
\* callback, flag check, store).
DeepRaceSteps == 6

\* ---------------------------------------------------------- constants
\* The only status PerformDownload accepts (httpCode != 200).
HTTP_OK == 200

\* Thread slots: the thread mDownloadThread holds and the one being
\* constructed. Job j runs in Slot(j); the slot's previous thread (job j-2)
\* has been joined by then, or the process has terminated.
Workers == {1, 2}
Slot(j) == ((j + 1) % 2) + 1
\* StartDownload's argument; the worker's control flow does not depend on it
\* (the engine's answer is chosen freely at every transfer).
Urls == {"u1"}
\* Status codes a server answers with.
HttpCodes == {HTTP_OK, 404}
\* What reading CURLINFO_RESPONSE_CODE from the handle freed by
\* curl_easy_cleanup can leave in httpCode: the stale real code, the
\* initial 0, or any other value of the reused memory.
GetInfoOutcomes == HttpCodes \cup {0}

Terminal == {"Complete", "Error", "Cancelled"}
ErrorPaths == {"openfail", "initfail", "engine", "http", "renamefail"}

VARIABLES
    \* BgmDownloader's fields
    mState, mProgress, mDownloadedBytes, mTotalBytes, mCancelRequested,
    mThreadRunning, mErrorMessage, mCurrentUrl, mMutex, mCompletionCallback,
    mDownloadThread,
    \* the process and the two paths on disk
    terminated, destFile, tempFile,
    \* the caller thread: operation in progress, position, argument
    callerOp, callerPc, callerArg,
    \* worker threads: position and PerformDownload's locals
    wpc, wjob, res, httpCode, dlnow, dltotal, exit, raceSteps,
    \* observation: the server's answer, the callback invocations, the job
    \* window (StartDownload calls begun, destination and state at the call,
    \* Cancel() executed while Downloading, callback installed throughout)
    srvCode, cb, jobs, destAtStart, sdEntryState, cancelHit, cbStable,
    \* the job whose flag a Cancel() has set (0: none), and what
    \* StartDownload's own IsDownloading() read
    cancelledJob, sdActive,
    \* the worker steps the scheduler grants between the construction of the
    \* new std::thread and the move-assignment onto a joinable handle
    raceLimit,
    \* MusicPlayer: the loaded track's path, that file's content as the
    \* title/artist queries find it, the last such query with what it read and
    \* returned, and the Mix_Music handle ("null", "loaded")
    mCurrentFilePath, musicFile, query, mMusic

fields == <<mState, mProgress, mDownloadedBytes, mTotalBytes, mCancelRequested,
            mThreadRunning, mErrorMessage, mCurrentUrl, mMutex,
            mCompletionCallback, mDownloadThread>>
disk == <<destFile, tempFile>>
caller == <<callerOp, callerPc, callerArg>>
locals == <<res, httpCode, dlnow, dltotal, exit>>
history == <<srvCode, cb, jobs, destAtStart, sdEntryState, cancelHit, cbStable,
             cancelledJob, sdActive>>
player == <<mCurrentFilePath, musicFile, query, mMusic>>
outside == <<raceLimit, player>>
vars == <<fields, terminated, disk, caller, wpc, wjob, raceSteps, locals, history, outside>>

\* ------------------------------------------------------------ helpers
RECURSIVE GCD(_, _)
GCD(a, b) == IF b = 0 THEN a ELSE GCD(b, a % b)

\* (float)dlnow / (float)dltotal as a reduced fraction <<num, den>>.
Frac(n, d) == LET g == GCD(n, d) IN <<n \div g, d \div g>>
Zero == <<0, 1>>
One == <<1, 1>>
IsOne(p) == p[1] = p[2]
Less(p, q) == p[1] * q[2] < q[1] * p[2]

DigitChar == <<"0", "1", "2", "3", "4", "5", "6", "7", "8", "9">>
\* std::to_string of a non-negative long, one character per element.
RECURSIVE to_string(_)
to_string(n) ==
    IF n < 10 THEN <<DigitChar[n + 1]>>
    ELSE to_string(n \div 10) \o <<DigitChar[(n % 10) + 1]>>

\* curl_easy_strerror(res)
StrError(r) ==
    IF r = "ABORTED" THEN <<"Operation was aborted by an application callback">>
    ELSE <<"Transfer failed">>

\* The text each failing exit path assigns to mErrorMessage.
ErrorText(path, r, code) ==
    CASE path = "openfail" -> <<"Failed to create temporary file">>
      [] path = "initfail" -> <<"Failed to initialize CURL">>
      [] path = "engine" -> StrError(r)
      [] path = "http" -> <<"HTTP error: ">> \o to_string(code)
      [] OTHER -> <<"Failed to rename temporary file">>

Absent == [exists |-> FALSE, job |-> 0, n |-> 0]
\* A file an earlier process life downloaded in full.
Prev == [exists |-> TRUE, job |-> 0, n |-> Size]
IsComplete(f) == f.exists /\ f.n = Size

\* The process runs: neither std::terminate() nor a crash has ended it.
Alive == terminated = "no"

IsDownloading == mState = "Downloading"
Running(w) == wpc[w] \notin {"idle", "done"}

\* ------------------------------------------------------- MusicPlayer
\* The title/artist queries of source/utils/MusicPlayer.cpp. Bytes are
\* 0..255; a file, a path and a text are sequences of bytes.
CH_NUL == 0
CH_SPACE == 32
CH_DOT == 46
CH_SLASH == 47
CH_BACKSLASH == 92
\* "ID3", "TAG", "TIT2", "TPE1", "No Music"
ID3 == <<73, 68, 51>>
TAG == <<84, 65, 71>>
TIT2 == <<84, 73, 84, 50>>
TPE1 == <<84, 80, 69, 49>>
NoMusic == <<78, 111, 32, 77, 117, 115, 105, 99>>
\* header[3] == 4: the version whose frame sizes are synchsafe
V24 == 4
\* the 10-byte tag header and the 10-byte frame header
HeaderLen == 10
\* the ID3v1 trailer and its title/artist fields
TrailerLen == 128
FieldLen == 30

Min(S) == CHOOSE x \in S : \A y \in S : x <= y
Max(S) == CHOOSE x \in S : \A y \in S : x >= y

\* a & b, a | b on non-negative integers; a << k
RECURSIVE BitAnd(_, _)
BitAnd(a, b) ==
    IF a = 0 \/ b = 0 THEN 0
    ELSE (a % 2) * (b % 2) + 2 * BitAnd(a \div 2, b \div 2)
RECURSIVE BitOr(_, _)
BitOr(a, b) ==
    IF a = 0 THEN b
    ELSE IF b = 0 THEN a
    ELSE (IF a % 2 = 1 \/ b % 2 = 1 THEN 1 ELSE 0) + 2 * BitOr(a \div 2, b \div 2)
Shl(a, k) == a * 2^k
\* The value of bit 31 in a 32-bit int is -2^31: what byte b contributes
\* as the top byte of an int.
TopByte(b) == (IF b >= 128 THEN b - 256 ELSE b) * 2^24

\* The 7-bit mask without effect: every bit of the byte is kept.
Synchsafe_NoMask(b) ==
    BitOr(BitOr(BitOr(Shl(b[1], 21), Shl(b[2], 14)), Shl(b[3], 7)), b[4])
\* ((b0 & 0x7F) << 21) | ((b1 & 0x7F) << 14) | ((b2 & 0x7F) << 7) | (b3 & 0x7F)
Synchsafe(b) ==
    BitOr(BitOr(BitOr(Shl(BitAnd(b[1], 127), 21), Shl(BitAnd(b[2], 127), 14)),
                Shl(BitAnd(b[3], 127), 7)),
          BitAnd(b[4], 127))
\* (b0 << 24) | (b1 << 16) | (b2 << 8) | b3 assigned to int: a set top bit
\* gives a negative value (GCC shifts into the sign bit as two's complement)
BigEndian(b) ==
    TopByte(b[1]) + BitOr(BitOr(Shl(b[2], 16), Shl(b[3], 8)), b[4])
\* The frame size read as big-endian whatever the version.
FrameSize_AlwaysBigEndian(ver, b) == BigEndian(b)
\* int frameSize: synchsafe if (header[3] == 4), big-endian otherwise
FrameSize(ver, b) == IF ver = V24 THEN Synchsafe(b) ELSE BigEndian(b)

\* The buffer taken whole, nulls included.
CStr_Whole(s) == s
\* The characters before the first '\0': what strcmp and std::string(const
\* char*) see of a buffer, and what find('\0') + substr(0, nullPos) keep.
CStr(s) ==
    LET nulls == {i \in 1..Len(s) : s[i] = CH_NUL}
    IN IF nulls = {} THEN s ELSE SubSeq(s, 1, Min(nulls) - 1)

\* tagData[i] for every i of ix is inside the buffer of tagSize bytes.
Inside(ix, tagSize) == ix \subseteq 0..(tagSize - 1)
\* What a frame search returns: the text, the indices of tagData it read,
\* the frames whose size it decoded (offset and frameSize, in order), and
\* whether it read outside tagData (then nothing about the result is
\* determined).
Found(text, reads, seen) ==
    [text |-> text, reads |-> reads, seen |-> seen, oob |-> FALSE]
Outside(reads, seen) ==
    [text |-> <<>>, reads |-> reads, seen |-> seen, oob |-> TRUE]

\* The loop condition without the room for a frame header.
LoopGuard_NoHeaderRoom(offset, tagSize) == offset < tagSize
\* while (offset + 10 < tagSize)
LoopGuard(offset, tagSize) == offset + HeaderLen < tagSize

\* The frame loop of ReadID3Title / ReadID3Artist from `offset` on; `want`
\* is "TIT2" or "TPE1", `reads` the indices read so far, `seen` the frames
\* decoded so far.
RECURSIVE FrameLoop(_, _, _, _, _, _)
FrameLoop(tagData, ver, want, offset, reads, seen) ==
    LET tagSize == Len(tagData)
        idIx == offset..(offset + 3)
        sizeIx == (offset + 4)..(offset + 7)
    IN
    IF ~LoopGuard(offset, tagSize) THEN Found(<<>>, reads, seen)
    ELSE IF ~Inside(idIx, tagSize) THEN Outside(reads \cup idIx, seen)
    ELSE
      LET frameID == SubSeq(tagData, offset + 1, offset + 4) IN
      IF frameID[1] = CH_NUL THEN Found(<<>>, reads \cup idIx, seen)
      ELSE IF ~Inside(sizeIx, tagSize) THEN Outside(reads \cup idIx \cup sizeIx, seen)
      ELSE
        LET frameSize == FrameSize(ver, SubSeq(tagData, offset + 5, offset + 8))
            rd == reads \cup idIx \cup sizeIx
            sn == Append(seen, [offset |-> offset, size |-> frameSize])
            textStart == offset + HeaderLen + 1
            textSize == frameSize - 1
            textIx == textStart..(textStart + textSize - 1)
            next == offset + HeaderLen + frameSize
        IN
        IF frameSize <= 0 \/ frameSize > tagSize - offset - HeaderLen
        THEN Found(<<>>, rd, sn)
        ELSE IF CStr(frameID) = want /\ frameSize > 1
        THEN IF ~Inside({offset + HeaderLen}, tagSize)
             THEN Outside(rd \cup {offset + HeaderLen}, sn)
             ELSE IF textStart + textSize <= tagSize
             THEN IF ~Inside(textIx, tagSize)
                  THEN Outside(rd \cup {offset + HeaderLen} \cup textIx, sn)
                  ELSE Found(CStr(SubSeq(tagData, textStart + 1, textStart + textSize)),
                             rd \cup {offset + HeaderLen} \cup textIx, sn)
             ELSE FrameLoop(tagData, ver, want, next, rd \cup {offset + HeaderLen}, sn)
        ELSE IF frameSize = 0 THEN Found(<<>>, rd, sn)
        ELSE FrameLoop(tagData, ver, want, next, rd, sn)

\* No frame search took place: the file or its header could not be read, or
\* it does not start with "ID3"; sizeBytes is <<>> when no size was decoded.
NoTag(sizeBytes, tagSize) ==
    [text |-> <<>>, reads |-> {}, seen |-> <<>>, oob |-> FALSE, sizeBytes |-> sizeBytes,
     tagSize |-> tagSize, searched |-> FALSE]

\* ReadID3Title / ReadID3Artist up to the frame loop: fopen, fread of the
\* header, the "ID3" test, the synchsafe tag size, fread of the tag body
\* (new unsigned char[tagSize] is taken to succeed).
ReadID3Frame(f, want) ==
    IF ~f.exists THEN NoTag(<<>>, 0)
    ELSE IF Len(f.bytes) < HeaderLen THEN NoTag(<<>>, 0)
    ELSE
      LET header == SubSeq(f.bytes, 1, HeaderLen)
          sizeBytes == SubSeq(header, 7, 10)
          tagSize == Synchsafe(sizeBytes)
      IN
      IF SubSeq(header, 1, 3) # ID3 THEN NoTag(<<>>, 0)
      ELSE IF Len(f.bytes) - HeaderLen < tagSize THEN NoTag(sizeBytes, tagSize)
      ELSE
        LET r == FrameLoop(SubSeq(f.bytes, HeaderLen + 1, HeaderLen + tagSize),
                           header[4], want, 0, {}, <<>>)
        IN [text |-> r.text, reads |-> r.reads, seen |-> r.seen, oob |-> r.oob,
            sizeBytes |-> sizeBytes, tagSize |-> tagSize, searched |-> TRUE]
ReadID3Title(f) == ReadID3Frame(f, TIT2)
ReadID3Artist(f) == ReadID3Frame(f, TPE1)

\* for (i = 29; i >= 0; i--) if (buf[i] == ' ' || buf[i] == '\0')
\* buf[i] = '\0'; else break;
RECURSIVE TrimLoop(_, _)
TrimLoop(buf, i) ==
    IF i < 0 THEN buf
    ELSE IF buf[i + 1] = CH_SPACE \/ buf[i + 1] = CH_NUL
    THEN TrimLoop([buf EXCEPT ![i + 1] = CH_NUL], i - 1)
    ELSE buf
\* char buf[31] = {0}; memcpy(buf, field, 30); the loop; std::string(buf)
TrailerField(field) == CStr(TrimLoop(field \o <<CH_NUL>>, FieldLen - 1))

NoTrailer == [ok |-> FALSE, title |-> <<>>, artist |-> <<>>]
\* ReadID3v1Tag: fopen, fseek(file, -128, SEEK_END), fread of 128 bytes,
\* the "TAG" test, the two fields.
ReadID3v1Tag(f) ==
    IF ~f.exists THEN NoTrailer
    ELSE IF Len(f.bytes) < TrailerLen THEN NoTrailer
    ELSE
      LET tag == SubSeq(f.bytes, Len(f.bytes) - TrailerLen + 1, Len(f.bytes)) IN
      IF SubSeq(tag, 1, 3) # TAG THEN NoTrailer
      ELSE [ok |-> TRUE,
            title |-> TrailerField(SubSeq(tag, 4, 3 + FieldLen)),
            artist |-> TrailerField(SubSeq(tag, 4 + FieldLen, 3 + 2 * FieldLen))]

\* s.find_last_of(chars): the last 0-based position holding one of chars,
\* -1 for npos.
RECURSIVE FindLastOf(_, _, _)
FindLastOf(s, chars, i) ==
    IF i < 0 THEN -1
    ELSE IF s[i + 1] \in chars THEN i
    ELSE FindLastOf(s, chars, i - 1)
\* GetCurrentTrackName's last resort: the file name without its extension.
FileStem(path) ==
    LET lastSlash == FindLastOf(path, {CH_SLASH, CH_BACKSLASH}, Len(path) - 1)
        filename == IF lastSlash # -1 THEN SubSeq(path, lastSlash + 2, Len(path))
                    ELSE path
        lastDot == FindLastOf(filename, {CH_DOT}, Len(filename) - 1)
    IN IF lastDot # -1 THEN SubSeq(filename, 1, lastDot) ELSE filename

NotCalled == [called |-> FALSE, ok |-> FALSE, title |-> <<>>, artist |-> <<>>]
Called(t) == [called |-> TRUE, ok |-> t.ok, title |-> t.title, artist |-> t.artist]

\* The title query accepting a trailer whatever its title.
TrackName_AnyTrailerTitle(path, f) ==
    IF path = <<>>
    THEN [result |-> NoMusic, v2 |-> NoTag(<<>>, 0), v1 |-> NotCalled]
    ELSE
      LET v2 == ReadID3Title(f) IN
      IF v2.text # <<>> THEN [result |-> v2.text, v2 |-> v2, v1 |-> NotCalled]
      ELSE
        LET v1 == ReadID3v1Tag(f) IN
        IF v1.ok
        THEN [result |-> v1.title, v2 |-> v2, v1 |-> Called(v1)]
        ELSE [result |-> FileStem(path), v2 |-> v2, v1 |-> Called(v1)]
\* GetCurrentTrackName as a function of mCurrentFilePath and the file there.
TrackName(path, f) ==
    IF path = <<>>
    THEN [result |-> NoMusic, v2 |-> NoTag(<<>>, 0), v1 |-> NotCalled]
    ELSE
      LET v2 == ReadID3Title(f) IN
      IF v2.text # <<>> THEN [result |-> v2.text, v2 |-> v2, v1 |-> NotCalled]
      ELSE
        LET v1 == ReadID3v1Tag(f) IN
        IF v1.ok /\ v1.title # <<>>
        THEN [result |-> v1.title, v2 |-> v2, v1 |-> Called(v1)]
        ELSE [result |-> FileStem(path), v2 |-> v2, v1 |-> Called(v1)]
\* GetCurrentArtist likewise.
Artist(path, f) ==
    IF path = <<>>
    THEN [result |-> <<>>, v2 |-> NoTag(<<>>, 0), v1 |-> NotCalled]
    ELSE
      LET v2 == ReadID3Artist(f) IN
      IF v2.text # <<>> THEN [result |-> v2.text, v2 |-> v2, v1 |-> NotCalled]
      ELSE
        LET v1 == ReadID3v1Tag(f) IN
        IF v1.ok
        THEN [result |-> v1.artist, v2 |-> v2, v1 |-> Called(v1)]
        ELSE [result |-> <<>>, v2 |-> v2, v1 |-> Called(v1)]

\* No file at the path; no query made yet.
NoFile == [exists |-> FALSE, bytes |-> <<>>, wf |-> FALSE, frames |-> <<>>]
NoQuery == [op |-> "none", result |-> <<>>, v2 |-> NoTag(<<>>, 0), v1 |-> NotCalled]

\* --------------------------------------------------------------- Init
\* The object after construction, no track loaded in the player.
Constructed ==
    /\ mState = "Idle"
    /\ mProgress = Zero
    /\ mDownloadedBytes = 0
    /\ mTotalBytes = 0
    /\ mCancelRequested = FALSE
    /\ mThreadRunning = FALSE
    /\ mErrorMessage = <<>>
    /\ mCurrentUrl = ""
    /\ mMutex = 0
    /\ mCompletionCallback = FALSE
    /\ mDownloadThread = 0
    /\ terminated = "no"
    /\ destFile \in {Absent, Prev}
    /\ tempFile = Absent
    /\ callerOp = "none"
    /\ callerPc = "idle"
    /\ callerArg = ""
    /\ wpc = [w \in Workers |-> "idle"]
    /\ wjob = [w \in Workers |-> 0]
    /\ raceSteps = 0
    /\ res = [w \in Workers |-> "none"]
    /\ httpCode = [w \in Workers |-> 0]
    /\ dlnow = [w \in Workers |-> 0]
    /\ dltotal = [w \in Workers |-> 0]
    /\ exit = [w \in Workers |-> "none"]
    /\ srvCode = [w \in Workers |-> 0]
    /\ cb = [w \in Workers |-> <<>>]
    /\ jobs = 0
    /\ destAtStart = destFile
    /\ sdEntryState = "Idle"
    /\ cancelHit = FALSE
    /\ cbStable = [w \in Workers |-> FALSE]
    /\ cancelledJob = 0
    /\ sdActive = FALSE

Init ==
    /\ Constructed
    /\ raceLimit = MaxRaceSteps
    /\ mCurrentFilePath = <<>>
    /\ musicFile = NoFile
    /\ query = NoQuery
    /\ mMusic = "null"

\* ----------------------------------------------------- caller thread
\* StartDownload(url) is entered: the job window opens.
CallStartDownload(url) ==
    /\ Alive /\ callerPc = "idle" /\ jobs < MaxStarts
    /\ callerOp' = "start" /\ callerPc' = "sd_check" /\ callerArg' = url
    /\ jobs' = jobs + 1
    /\ destAtStart' = destFile
    /\ sdEntryState' = mState
    /\ cancelHit' = FALSE
    /\ cbStable' = [cbStable EXCEPT ![Slot(jobs + 1)] = mCompletionCallback]
    \* the previous job's window closes: what was observed of its finished
    \* worker is dropped
    /\ exit' = [w \in Workers |-> IF wpc[w] = "done" THEN "none" ELSE exit[w]]
    /\ srvCode' = [w \in Workers |-> IF wpc[w] = "done" THEN 0 ELSE srvCode[w]]
    /\ cb' = [w \in Workers |-> IF wpc[w] = "done" THEN <<>> ELSE cb[w]]
    /\ cancelledJob' = IF cancelledJob # 0 /\ wpc[Slot(cancelledJob)] = "done"
                        THEN 0 ELSE cancelledJob
    /\ sdActive' = FALSE
    /\ UNCHANGED <<fields, terminated, disk, wpc, wjob, raceSteps, outside,
                   res, httpCode, dlnow, dltotal>>

\* if (IsDownloading()) { Cancel(); join } -- otherwise straight to the reset.
SD_Check ==
    /\ Alive /\ callerPc = "sd_check"
    /\ callerPc' = IF IsDownloading THEN "c_check" ELSE "sd_url"
    /\ sdActive' = IsDownloading
    /\ UNCHANGED <<fields, terminated, disk, callerOp, callerArg, wpc, wjob,
                   raceSteps, outside, locals, srvCode, cb, jobs, destAtStart,
                   sdEntryState, cancelHit, cbStable, cancelledJob>>

\* Cancel() is entered from the application.
CallCancel ==
    /\ Alive /\ callerPc = "idle"
    /\ callerOp' = "cancel" /\ callerPc' = "c_check"
    /\ UNCHANGED <<fields, terminated, disk, callerArg, wpc, wjob, raceSteps, outside, locals, history>>

\* Where Cancel() returns to: StartDownload's join, or the application.
CancelReturn == IF callerOp = "start" THEN "sd_join" ELSE "idle"
CancelReturnOp == IF callerOp = "start" THEN "start" ELSE "none"

\* Cancel() without its guard: it proceeds to the stores in every state.
C_Check_Unguarded ==
    /\ Alive /\ callerPc = "c_check"
    /\ callerPc' = "c_flag"
    /\ callerOp' = callerOp
    /\ cancelHit' = (cancelHit \/ callerOp = "cancel")
    /\ UNCHANGED <<fields, terminated, disk, callerArg, wpc, wjob, raceSteps, outside, locals,
                   srvCode, cb, jobs, destAtStart, sdEntryState, cbStable,
                   cancelledJob, sdActive>>

\* Cancel(): if (IsDownloading())
C_Check ==
    /\ Alive /\ callerPc = "c_check"
    /\ IF IsDownloading
       THEN /\ callerPc' = "c_flag"
            /\ callerOp' = callerOp
            /\ cancelHit' = (cancelHit \/ callerOp = "cancel")
       ELSE /\ callerPc' = CancelReturn
            /\ callerOp' = CancelReturnOp
            /\ cancelHit' = cancelHit
    /\ UNCHANGED <<fields, terminated, disk, callerArg, wpc, wjob, raceSteps, outside, locals,
                   srvCode, cb, jobs, destAtStart, sdEntryState, cbStable,
                   cancelledJob, sdActive>>

\* Cancel(): mCancelRequested.store(true)
C_Flag ==
    /\ Alive /\ callerPc = "c_flag"
    /\ mCancelRequested' = TRUE
    /\ callerPc' = "c_state"
    \* the job this Cancel() acts on: the current one, or the prior one when
    \* StartDownload calls it
    /\ cancelledJob' = IF callerOp = "start" THEN jobs - 1 ELSE jobs
    /\ UNCHANGED <<mState, mProgress, mDownloadedBytes, mTotalBytes,
                   mThreadRunning, mErrorMessage, mCurrentUrl, mMutex,
                   mCompletionCallback, mDownloadThread, terminated, disk,
                   callerOp, callerArg, wpc, wjob, raceSteps, outside, locals,
                   srvCode, cb, jobs, destAtStart, sdEntryState, cancelHit,
                   cbStable, sdActive>>

\* Cancel(): mState.store(BGM_CANCELLED)
C_State ==
    /\ Alive /\ callerPc = "c_state"
    /\ mState' = "Cancelled"
    /\ callerPc' = CancelReturn
    /\ callerOp' = CancelReturnOp
    /\ UNCHANGED <<mProgress, mDownloadedBytes, mTotalBytes, mCancelRequested,
                   mThreadRunning, mErrorMessage, mCurrentUrl, mMutex,
                   mCompletionCallback, mDownloadThread, terminated, disk,
                   callerArg, wpc, wjob, raceSteps, outside, locals, history>>

\* The join returning at once, the thread left to run (as detach() would).
SD_Join_NoWait ==
    /\ Alive /\ callerPc = "sd_join"
    /\ mDownloadThread' = 0
    /\ callerPc' = "sd_url"
    /\ exit' = [w \in Workers |-> IF w = mDownloadThread THEN "none" ELSE exit[w]]
    /\ srvCode' = [w \in Workers |-> IF w = mDownloadThread THEN 0 ELSE srvCode[w]]
    /\ cb' = [w \in Workers |-> IF w = mDownloadThread THEN <<>> ELSE cb[w]]
    /\ cancelledJob' = 0
    /\ UNCHANGED <<sdActive, mState, mProgress, mDownloadedBytes, mTotalBytes,
                   mCancelRequested, mThreadRunning, mErrorMessage, mCurrentUrl,
                   mMutex, mCompletionCallback, terminated, disk,
                   callerOp, callerArg, wpc, wjob, raceSteps, outside,
                   res, httpCode, dlnow, dltotal,
                   jobs, destAtStart, sdEntryState, cancelHit, cbStable>>

\* StartDownload: if (mDownloadThread.joinable()) mDownloadThread.join();
\* join blocks until the thread function has returned.
SD_Join ==
    /\ Alive /\ callerPc = "sd_join"
    /\ mDownloadThread # 0 => wpc[mDownloadThread] = "done"
    /\ mDownloadThread' = 0
    /\ callerPc' = "sd_url"
    \* the joined worker belongs to the job window that has closed
    /\ exit' = [w \in Workers |-> IF w = mDownloadThread THEN "none" ELSE exit[w]]
    /\ srvCode' = [w \in Workers |-> IF w = mDownloadThread THEN 0 ELSE srvCode[w]]
    /\ cb' = [w \in Workers |-> IF w = mDownloadThread THEN <<>> ELSE cb[w]]
    /\ cancelledJob' = 0
    /\ UNCHANGED <<sdActive, mState, mProgress, mDownloadedBytes, mTotalBytes,
                   mCancelRequested, mThreadRunning, mErrorMessage, mCurrentUrl,
                   mMutex, mCompletionCallback, terminated, disk,
                   callerOp, callerArg, wpc, wjob, raceSteps, outside,
                   res, httpCode, dlnow, dltotal,
                   jobs, destAtStart, sdEntryState, cancelHit, cbStable>>

\* StartDownload: mCurrentUrl = url; mCancelRequested.store(false);
SD_Url ==
    /\ Alive /\ callerPc = "sd_url"
    /\ mCurrentUrl' = callerArg
    /\ mCancelRequested' = FALSE
    /\ callerPc' = "sd_state"
    /\ UNCHANGED <<mState, mProgress, mDownloadedBytes, mTotalBytes,
                   mThreadRunning, mErrorMessage, mMutex, mCompletionCallback,
                   mDownloadThread, terminated, disk, callerOp, callerArg,
                   wpc, wjob, raceSteps, outside, locals, history>>

\* StartDownload: mState.store(BGM_DOWNLOADING);
SD_State ==
    /\ Alive /\ callerPc = "sd_state"
    /\ mState' = "Downloading"
    /\ callerPc' = "sd_counters"
    /\ UNCHANGED <<mProgress, mDownloadedBytes, mTotalBytes, mCancelRequested,
                   mThreadRunning, mErrorMessage, mCurrentUrl, mMutex,
                   mCompletionCallback, mDownloadThread, terminated, disk,
                   callerOp, callerArg, wpc, wjob, raceSteps, outside, locals, history>>

\* StartDownload: mProgress.store(0.0f); mDownloadedBytes.store(0);
\* mTotalBytes.store(0);
SD_Counters ==
    /\ Alive /\ callerPc = "sd_counters"
    /\ mProgress' = Zero
    /\ mDownloadedBytes' = 0
    /\ mTotalBytes' = 0
    /\ callerPc' = "sd_errmsg"
    /\ UNCHANGED <<mState, mCancelRequested, mThreadRunning, mErrorMessage,
                   mCurrentUrl, mMutex, mCompletionCallback, mDownloadThread,
                   terminated, disk, callerOp, callerArg, wpc, wjob, raceSteps, outside, locals, history>>

\* StartDownload: mErrorMessage = ""; (no lock taken) mThreadRunning = true;
SD_ErrMsg ==
    /\ Alive /\ callerPc = "sd_errmsg"
    /\ mErrorMessage' = <<>>
    /\ mThreadRunning' = TRUE
    /\ callerPc' = "sd_spawn"
    /\ UNCHANGED <<mState, mProgress, mDownloadedBytes, mTotalBytes,
                   mCancelRequested, mCurrentUrl, mMutex, mCompletionCallback,
                   mDownloadThread, terminated, disk, callerOp, callerArg,
                   wpc, wjob, raceSteps, outside, locals, history>>

\* StartDownload: std::thread([this]() {...}) -- the temporary is constructed,
\* so the new thread runs, before the move-assignment to mDownloadThread.
SD_Spawn ==
    /\ Alive /\ callerPc = "sd_spawn"
    /\ wpc' = [wpc EXCEPT ![Slot(jobs)] = "open"]
    /\ wjob' = [wjob EXCEPT ![Slot(jobs)] = jobs]
    /\ exit' = [exit EXCEPT ![Slot(jobs)] = "none"]
    /\ srvCode' = [srvCode EXCEPT ![Slot(jobs)] = 0]
    /\ cb' = [cb EXCEPT ![Slot(jobs)] = <<>>]
    /\ callerPc' = "sd_assign"
    /\ UNCHANGED <<fields, terminated, disk, callerOp, callerArg, raceSteps, outside,
                   res, httpCode, dlnow, dltotal, jobs, destAtStart,
                   sdEntryState, cancelHit, cbStable, cancelledJob, sdActive>>

\* StartDownload: mDownloadThread = <temporary>; std::thread's move-assignment
\* calls std::terminate() when the target is still joinable.
SD_Assign ==
    /\ Alive /\ callerPc = "sd_assign"
    /\ IF mDownloadThread # 0
       THEN /\ terminated' = "std::terminate"
            /\ UNCHANGED <<mDownloadThread, callerOp, callerPc>>
       ELSE /\ mDownloadThread' = Slot(jobs)
            /\ callerOp' = "none" /\ callerPc' = "idle"
            /\ UNCHANGED terminated
    /\ UNCHANGED <<mState, mProgress, mDownloadedBytes, mTotalBytes,
                   mCancelRequested, mThreadRunning, mErrorMessage, mCurrentUrl,
                   mMutex, mCompletionCallback, disk, callerArg, wpc, wjob, raceSteps, outside, locals,
                   history>>

\* SetCompletionCallback(callback) is entered; callback is a callable (TRUE)
\* or an empty std::function (FALSE).
CallSetCompletionCallback(fn) ==
    /\ Alive /\ callerPc = "idle"
    /\ fn # mCompletionCallback
    /\ callerOp' = "setcb" /\ callerPc' = "scb_lock" /\ callerArg' = fn
    /\ UNCHANGED <<fields, terminated, disk, wpc, wjob, raceSteps, outside, locals, history>>

\* SetCompletionCallback: lock_guard lock(mMutex); mCompletionCallback = callback;
SCB_Set ==
    /\ Alive /\ callerPc = "scb_lock"
    /\ mMutex = 0
    /\ mCompletionCallback' = callerArg
    /\ cbStable' = [w \in Workers |->
                      IF wpc[w] = "done" THEN cbStable[w]
                      ELSE cbStable[w] /\ callerArg]
    /\ callerOp' = "none" /\ callerPc' = "idle"
    /\ UNCHANGED <<mState, mProgress, mDownloadedBytes, mTotalBytes,
                   mCancelRequested, mThreadRunning, mErrorMessage, mCurrentUrl,
                   mMutex, mDownloadThread, terminated, disk, callerArg, wpc, wjob,
                   raceSteps, outside, locals, srvCode, cb, jobs, destAtStart,
                   sdEntryState, cancelHit, cancelledJob, sdActive>>

\* ----------------------------------------------------- worker thread
\* Everything of the object, the disk and the caller a worker step leaves alone.
WorkerFrame == <<mDownloadedBytes, mCurrentUrl, mCompletionCallback,
                 mDownloadThread, caller, wjob, jobs, destAtStart, sdEntryState,
                 cancelHit, cbStable, cancelledJob, sdActive, outside>>

\* The caller stands between constructing the new thread and the
\* move-assignment that will call std::terminate().
InRace == callerPc = "sd_assign" /\ mDownloadThread # 0

\* const char* destPath = "fs:/vol/external01/UTheme/BGM.mp3";
DestPath == <<102, 115, 58, 47, 118, 111, 108, 47, 101, 120, 116, 101, 114, 110, 97, 108, 48, 49, 47, 85, 84, 104, 101, 109, 101, 47, 66, 71, 77, 46, 109, 112, 51>>

\* Worker w is scheduled at position pc.
At(w, pc) ==
    /\ Alive /\ wpc[w] = pc
    /\ InRace => raceSteps < raceLimit
    /\ raceSteps' = IF InRace THEN raceSteps + 1 ELSE raceSteps

\* PerformDownload: FILE* file = fopen(tempPath, "wb"); if (!file) {...}
W_Open(w) ==
    /\ At(w, "open")
    /\ \/ /\ tempFile' = [exists |-> TRUE, job |-> wjob[w], n |-> 0]
          /\ wpc' = [wpc EXCEPT ![w] = "init"]
          /\ UNCHANGED exit
       \/ /\ exit' = [exit EXCEPT ![w] = "openfail"]
          /\ wpc' = [wpc EXCEPT ![w] = "lock"]
          /\ UNCHANGED tempFile
    /\ UNCHANGED <<mState, mProgress, mTotalBytes, mCancelRequested,
                   mThreadRunning, mErrorMessage, mMutex, terminated, destFile,
                   res, httpCode, dlnow, dltotal, srvCode, cb, WorkerFrame>>

\* PerformDownload: CURL* curl = curl_easy_init(); if (!curl) {...}
\* otherwise the curl_easy_setopt calls.
W_Init(w) ==
    /\ At(w, "init")
    /\ \/ /\ wpc' = [wpc EXCEPT ![w] = "perform"]
          /\ UNCHANGED exit
       \/ /\ exit' = [exit EXCEPT ![w] = "initfail"]
          /\ wpc' = [wpc EXCEPT ![w] = "lock"]
    /\ UNCHANGED <<mState, mProgress, mTotalBytes, mCancelRequested,
                   mThreadRunning, mErrorMessage, mMutex, terminated, disk,
                   res, httpCode, dlnow, dltotal, srvCode, cb, WorkerFrame>>

\* curl_easy_perform: the response headers carry a content length.
E_Headers(w) ==
    /\ At(w, "perform")
    /\ dltotal[w] = 0
    /\ dltotal' = [dltotal EXCEPT ![w] = Size]
    /\ UNCHANGED <<mState, mProgress, mTotalBytes, mCancelRequested,
                   mThreadRunning, mErrorMessage, mMutex, terminated, disk,
                   wpc, res, httpCode, dlnow, exit, srvCode, cb, WorkerFrame>>

\* curl_easy_perform: a chunk arrives and CURLOPT_WRITEFUNCTION (fwrite)
\* appends it to the file this worker opened.
E_Data(w) ==
    /\ At(w, "perform")
    /\ dlnow[w] < Size
    /\ dlnow' = [dlnow EXCEPT ![w] = @ + 1]
    /\ tempFile' = IF tempFile.exists /\ tempFile.job = wjob[w] /\ tempFile.n < Size
                   THEN [tempFile EXCEPT !.n = @ + 1]
                   ELSE tempFile
    /\ UNCHANGED <<mState, mProgress, mTotalBytes, mCancelRequested,
                   mThreadRunning, mErrorMessage, mMutex, terminated, destFile,
                   wpc, res, httpCode, dltotal, exit, srvCode, cb, WorkerFrame>>

\* curl_easy_perform invokes CURLOPT_XFERINFOFUNCTION(dltotal, dlnow).
E_Progress(w) ==
    /\ At(w, "perform")
    /\ wpc' = [wpc EXCEPT ![w] = "progress"]
    /\ UNCHANGED <<mState, mProgress, mTotalBytes, mCancelRequested,
                   mThreadRunning, mErrorMessage, mMutex, terminated, disk,
                   res, httpCode, dlnow, dltotal, exit, srvCode, cb, WorkerFrame>>

\* ProgressCallback: if (mCancelRequested.load()) return 1; -- a non-zero
\* return makes curl_easy_perform fail with CURLE_ABORTED_BY_CALLBACK.
W_ProgressCheck(w) ==
    /\ At(w, "progress")
    /\ IF mCancelRequested
       THEN /\ res' = [res EXCEPT ![w] = "ABORTED"]
            /\ wpc' = [wpc EXCEPT ![w] = "close"]
       ELSE /\ wpc' = [wpc EXCEPT ![w] = "progress_store"]
            /\ UNCHANGED res
    /\ UNCHANGED <<mState, mProgress, mTotalBytes, mCancelRequested,
                   mThreadRunning, mErrorMessage, mMutex, terminated, disk,
                   httpCode, dlnow, dltotal, exit, srvCode, cb, WorkerFrame>>

\* ProgressCallback: if (dltotal > 0) { mTotalBytes.store(dltotal);
\* mProgress.store((float)dlnow / (float)dltotal); } return 0;
W_ProgressStore(w) ==
    /\ At(w, "progress_store")
    /\ IF dltotal[w] > 0
       THEN /\ mTotalBytes' = dltotal[w]
            /\ mProgress' = Frac(dlnow[w], dltotal[w])
       ELSE UNCHANGED <<mTotalBytes, mProgress>>
    /\ wpc' = [wpc EXCEPT ![w] = "perform"]
    /\ UNCHANGED <<mState, mCancelRequested, mThreadRunning, mErrorMessage,
                   mMutex, terminated, disk, res, httpCode, dlnow, dltotal,
                   exit, srvCode, cb, WorkerFrame>>

\* curl_easy_perform fails on its own (network error, the 300 s timeout).
E_Fail(w) ==
    /\ At(w, "perform")
    /\ res' = [res EXCEPT ![w] = "FAILED"]
    /\ wpc' = [wpc EXCEPT ![w] = "close"]
    /\ UNCHANGED <<mState, mProgress, mTotalBytes, mCancelRequested,
                   mThreadRunning, mErrorMessage, mMutex, terminated, disk,
                   httpCode, dlnow, dltotal, exit, srvCode, cb, WorkerFrame>>

\* curl_easy_perform returns CURLE_OK: the whole body arrived, with the
\* server's status code.
E_Finish(w) ==
    /\ At(w, "perform")
    /\ dlnow[w] = Size
    /\ \E code \in HttpCodes : srvCode' = [srvCode EXCEPT ![w] = code]
    /\ res' = [res EXCEPT ![w] = "OK"]
    /\ wpc' = [wpc EXCEPT ![w] = "close"]
    /\ UNCHANGED <<mState, mProgress, mTotalBytes, mCancelRequested,
                   mThreadRunning, mErrorMessage, mMutex, terminated, disk,
                   httpCode, dlnow, dltotal, exit, cb, WorkerFrame>>

\* PerformDownload: fclose(file); curl_easy_cleanup(curl); if (res != CURLE_OK)
W_Close(w) ==
    /\ At(w, "close")
    /\ IF res[w] # "OK"
       THEN /\ exit' = [exit EXCEPT ![w] = "engine"]
            /\ wpc' = [wpc EXCEPT ![w] = "lock"]
       ELSE /\ wpc' = [wpc EXCEPT ![w] = "getinfo"]
            /\ UNCHANGED exit
    /\ UNCHANGED <<mState, mProgress, mTotalBytes, mCancelRequested,
                   mThreadRunning, mErrorMessage, mMutex, terminated, disk,
                   res, httpCode, dlnow, dltotal, srvCode, cb, WorkerFrame>>

\* PerformDownload: long httpCode = 0; curl_easy_getinfo(curl, ...) on the
\* handle curl_easy_cleanup has already freed; if (httpCode != 200) {...}
W_GetInfo(w) ==
    /\ At(w, "getinfo")
    /\ \/ /\ \E code \in GetInfoOutcomes :
                /\ httpCode' = [httpCode EXCEPT ![w] = code]
                /\ IF code # HTTP_OK
                   THEN /\ exit' = [exit EXCEPT ![w] = "http"]
                        /\ wpc' = [wpc EXCEPT ![w] = "lock"]
                   ELSE /\ wpc' = [wpc EXCEPT ![w] = "remove_dest"]
                        /\ UNCHANGED exit
          /\ UNCHANGED terminated
       \/ /\ terminated' = "crash"
          /\ UNCHANGED <<httpCode, exit, wpc>>
    /\ UNCHANGED <<mState, mProgress, mTotalBytes, mCancelRequested,
                   mThreadRunning, mErrorMessage, mMutex, disk,
                   res, dlnow, dltotal, srvCode, cb, WorkerFrame>>

\* PerformDownload: remove(destPath);
W_RemoveDest(w) ==
    /\ At(w, "remove_dest")
    /\ destFile' = Absent
    /\ wpc' = [wpc EXCEPT ![w] = "rename"]
    /\ UNCHANGED <<mState, mProgress, mTotalBytes, mCancelRequested,
                   mThreadRunning, mErrorMessage, mMutex, terminated, tempFile,
                   locals, srvCode, cb, WorkerFrame>>

\* PerformDownload: if (rename(tempPath, destPath) != 0) {...}
W_Rename(w) ==
    /\ At(w, "rename")
    /\ \/ /\ tempFile.exists
          /\ destFile' = tempFile
          /\ tempFile' = Absent
          /\ wpc' = [wpc EXCEPT ![w] = "complete"]
          /\ UNCHANGED exit
       \/ /\ exit' = [exit EXCEPT ![w] = "renamefail"]
          /\ wpc' = [wpc EXCEPT ![w] = "lock"]
          /\ UNCHANGED disk
    /\ UNCHANGED <<mState, mProgress, mTotalBytes, mCancelRequested,
                   mThreadRunning, mErrorMessage, mMutex, terminated,
                   res, httpCode, dlnow, dltotal, srvCode, cb, WorkerFrame>>

\* PerformDownload: mState.store(BGM_COMPLETE);
W_Complete(w) ==
    /\ At(w, "complete")
    /\ mState' = "Complete"
    /\ wpc' = [wpc EXCEPT ![w] = "progress1"]
    /\ UNCHANGED <<mProgress, mTotalBytes, mCancelRequested, mThreadRunning,
                   mErrorMessage, mMutex, terminated, disk, locals, srvCode, cb,
                   WorkerFrame>>

\* PerformDownload: mProgress.store(1.0f);
W_Progress1(w) ==
    /\ At(w, "progress1")
    /\ mProgress' = One
    /\ wpc' = [wpc EXCEPT ![w] = "load"]
    /\ UNCHANGED <<mState, mTotalBytes, mCancelRequested, mThreadRunning,
                   mErrorMessage, mMutex, terminated, disk, locals, srvCode, cb,
                   WorkerFrame>>

\* What a worker step leaves alone when it is inside MusicPlayer.
LoadFrame == <<mDownloadedBytes, mCurrentUrl, mCompletionCallback,
               mDownloadThread, caller, wjob, jobs, destAtStart, sdEntryState,
               cancelHit, cbStable, cancelledJob, sdActive, raceLimit,
               musicFile, query>>

\* PerformDownload: ShowNowPlaying, MusicPlayer::LoadMusic(destPath) up to
\* if (mMusic) { Mix_FreeMusic(mMusic); mMusic = nullptr; }
\* The player has been initialised (mInitialized is true). No lock is taken.
W_LoadMusic_Free(w) ==
    /\ At(w, "load")
    /\ mMusic' = "null"
    /\ wpc' = [wpc EXCEPT ![w] = "load_mus"]
    /\ UNCHANGED <<mState, mProgress, mTotalBytes, mCancelRequested,
                   mThreadRunning, mErrorMessage, mMutex, terminated, disk,
                   locals, srvCode, cb, mCurrentFilePath, LoadFrame>>

\* LoadMusic: mMusic = Mix_LoadMUS(filepath); on failure mCurrentFilePath = ""
\* and false, else mCurrentFilePath = filepath and true, followed in
\* PerformDownload by SetEnabled(...) and SetVolume(32).
W_LoadMusic(w) ==
    /\ At(w, "load_mus")
    /\ \E loaded \in BOOLEAN :
          /\ mMusic' = IF loaded THEN "loaded" ELSE "null"
          /\ mCurrentFilePath' = IF loaded THEN DestPath ELSE <<>>
    /\ exit' = [exit EXCEPT ![w] = "success"]
    /\ wpc' = [wpc EXCEPT ![w] = "lock"]
    /\ UNCHANGED <<mState, mProgress, mTotalBytes, mCancelRequested,
                   mThreadRunning, mErrorMessage, mMutex, terminated, disk,
                   res, httpCode, dlnow, dltotal, srvCode, cb, LoadFrame>>

\* PerformDownload: std::lock_guard<std::mutex> lock(mMutex);
W_Lock(w) ==
    /\ At(w, "lock")
    /\ mMutex = 0
    /\ mMutex' = w
    /\ wpc' = [wpc EXCEPT ![w] = IF exit[w] = "success" THEN "callback" ELSE "errmsg"]
    /\ UNCHANGED <<mState, mProgress, mTotalBytes, mCancelRequested,
                   mThreadRunning, mErrorMessage, terminated, disk, locals,
                   srvCode, cb, WorkerFrame>>

\* PerformDownload, a failing path: mErrorMessage = <the path's text>;
W_ErrMsg(w) ==
    /\ At(w, "errmsg")
    /\ mErrorMessage' = ErrorText(exit[w], res[w], httpCode[w])
    /\ wpc' = [wpc EXCEPT ![w] = "cleanup"]
    /\ UNCHANGED <<mState, mProgress, mTotalBytes, mCancelRequested,
                   mThreadRunning, mMutex, terminated, disk, locals, srvCode, cb,
                   WorkerFrame>>

\* PerformDownload, a failing path: remove(tempPath) after an engine failure,
\* a bad status or a failed rename; fclose(file) alone after a failed
\* curl_easy_init; nothing after a failed fopen.
W_Cleanup(w) ==
    /\ At(w, "cleanup")
    /\ tempFile' = IF exit[w] \in {"engine", "http", "renamefail"}
                   THEN Absent ELSE tempFile
    /\ wpc' = [wpc EXCEPT ![w] = "errstate"]
    /\ UNCHANGED <<mState, mProgress, mTotalBytes, mCancelRequested,
                   mThreadRunning, mErrorMessage, mMutex, terminated, destFile,
                   locals, srvCode, cb, WorkerFrame>>

\* W_ErrState with the store of BGM_ERROR forgotten.
W_ErrState_NoStore(w) ==
    /\ At(w, "errstate")
    /\ wpc' = [wpc EXCEPT ![w] = "callback"]
    /\ UNCHANGED <<mState, mProgress, mTotalBytes, mCancelRequested,
                   mThreadRunning, mErrorMessage, mMutex, terminated, disk,
                   locals, srvCode, cb, WorkerFrame>>

\* PerformDownload, a failing path: mState.store(BGM_ERROR);
W_ErrState(w) ==
    /\ At(w, "errstate")
    /\ mState' = "Error"
    /\ wpc' = [wpc EXCEPT ![w] = "callback"]
    /\ UNCHANGED <<mProgress, mTotalBytes, mCancelRequested, mThreadRunning,
                   mErrorMessage, mMutex, terminated, disk, locals, srvCode, cb,
                   WorkerFrame>>

\* The arguments a path hands to mCompletionCallback.
CallbackArgs(w) ==
    IF exit[w] = "success"
    THEN [ok |-> TRUE, msg |-> <<>>]
    ELSE [ok |-> FALSE, msg |-> mErrorMessage]

\* W_Callback with the invocation forgotten on the failed-rename path.
W_Callback_NotOnRenameFail(w) ==
    /\ At(w, "callback")
    /\ cb' = IF mCompletionCallback /\ exit[w] # "renamefail"
             THEN [cb EXCEPT ![w] = Append(@, CallbackArgs(w))]
             ELSE cb
    /\ wpc' = [wpc EXCEPT ![w] = "return"]
    /\ UNCHANGED <<mState, mProgress, mTotalBytes, mCancelRequested,
                   mThreadRunning, mErrorMessage, mMutex, terminated, disk,
                   locals, srvCode, WorkerFrame>>

\* PerformDownload: if (mCompletionCallback) mCompletionCallback(...);
W_Callback(w) ==
    /\ At(w, "callback")
    /\ cb' = IF mCompletionCallback
             THEN [cb EXCEPT ![w] = Append(@, CallbackArgs(w))]
             ELSE cb
    /\ wpc' = [wpc EXCEPT ![w] = "return"]
    /\ UNCHANGED <<mState, mProgress, mTotalBytes, mCancelRequested,
                   mThreadRunning, mErrorMessage, mMutex, terminated, disk,
                   locals, srvCode, WorkerFrame>>

\* PerformDownload returns (the lock_guard releases mMutex, the locals die)
\* and the thread's lambda runs mThreadRunning = false.
W_Return(w) ==
    /\ At(w, "return")
    /\ mMutex' = 0
    /\ mThreadRunning' = FALSE
    /\ wpc' = [wpc EXCEPT ![w] = "done"]
    /\ res' = [res EXCEPT ![w] = "none"]
    /\ httpCode' = [httpCode EXCEPT ![w] = 0]
    /\ dlnow' = [dlnow EXCEPT ![w] = 0]
    /\ dltotal' = [dltotal EXCEPT ![w] = 0]
    /\ UNCHANGED <<mState, mProgress, mTotalBytes, mCancelRequested,
                   mErrorMessage, terminated, disk, exit, srvCode, cb,
                   WorkerFrame>>

\* --------------------------------------------------------------- Next
Next ==
    \/ \E url \in Urls : CallStartDownload(url)
    \/ SD_Check
    \/ CallCancel
    \/ C_Check
    \/ C_Flag
    \/ C_State
    \/ SD_Join
    \/ SD_Url
    \/ SD_State
    \/ SD_Counters
    \/ SD_ErrMsg
    \/ SD_Spawn
    \/ SD_Assign
    \/ \E fn \in BOOLEAN : CallSetCompletionCallback(fn)
    \/ SCB_Set
    \/ \E w \in Workers : W_Open(w)
    \/ \E w \in Workers : W_Init(w)
    \/ \E w \in Workers : E_Headers(w)
    \/ \E w \in Workers : E_Data(w)
    \/ \E w \in Workers : E_Progress(w)
    \/ \E w \in Workers : W_ProgressCheck(w)
    \/ \E w \in Workers : W_ProgressStore(w)
    \/ \E w \in Workers : E_Fail(w)
    \/ \E w \in Workers : E_Finish(w)
    \/ \E w \in Workers : W_Close(w)
    \/ \E w \in Workers : W_GetInfo(w)
    \/ \E w \in Workers : W_RemoveDest(w)
    \/ \E w \in Workers : W_Rename(w)
    \/ \E w \in Workers : W_Complete(w)
    \/ \E w \in Workers : W_Progress1(w)
    \/ \E w \in Workers : W_LoadMusic_Free(w)
    \/ \E w \in Workers : W_LoadMusic(w)
    \/ \E w \in Workers : W_Lock(w)
    \/ \E w \in Workers : W_ErrMsg(w)
    \/ \E w \in Workers : W_Cleanup(w)
    \/ \E w \in Workers : W_ErrState(w)
    \/ \E w \in Workers : W_Callback(w)
    \/ \E w \in Workers : W_Return(w)

Spec == Init /\ [][Next]_vars

\* The same program with the scheduler letting the workers run longer before
\* the caller's move-assignment; no earlier download on disk.
InitRace ==
    /\ Constructed
    /\ destFile = Absent
    /\ raceLimit = DeepRaceSteps
    /\ mCurrentFilePath = <<>>
    /\ musicFile = NoFile
    /\ query = NoQuery
    /\ mMusic = "null"

SpecRace == InitRace /\ [][Next]_vars

\* ------------------------------------------- the application's other calls
\* const std::string& GetError() const is entered by the application thread.
CallGetError ==
    /\ Alive /\ callerPc = "idle"
    /\ callerOp' = "geterror" /\ callerPc' = "ge_read"
    /\ UNCHANGED <<fields, terminated, disk, callerArg, wpc, wjob, raceSteps,
                   outside, locals, history>>

\* GetError: return mErrorMessage; the caller reads the string it refers to.
\* No lock is taken.
GE_Read ==
    /\ Alive /\ callerPc = "ge_read"
    /\ callerOp' = "none" /\ callerPc' = "idle"
    /\ UNCHANGED <<fields, terminated, disk, callerArg, wpc, wjob, raceSteps,
                   outside, locals, history>>

\* MusicPlayer::Update() is entered by the application thread (the player
\* is initialised).
CallUpdate ==
    /\ Alive /\ callerPc = "idle"
    /\ callerOp' = "update" /\ callerPc' = "mp_update"
    /\ UNCHANGED <<fields, terminated, disk, callerArg, wpc, wjob, raceSteps,
                   outside, locals, history>>

\* A worker is inside LoadMusic, between its entry and its return.
InLoadMusic(w) == wpc[w] \in {"load", "load_mus"}

\* Update: if (mEnabled && mMusic && !IsPlaying() && !IsPaused()) Play();
\* with Play's Mix_PlayMusic(mMusic, -1). No lock is taken: with a worker
\* inside LoadMusic the handle read may be the one being freed, and the
\* process may crash. The mixer's playback state is not represented.
MP_Update ==
    /\ Alive /\ callerPc = "mp_update"
    /\ \/ UNCHANGED terminated
       \/ (\E w \in Workers : InLoadMusic(w)) /\ terminated' = "crash"
    /\ callerOp' = "none" /\ callerPc' = "idle"
    /\ UNCHANGED <<fields, disk, callerArg, wpc, wjob, raceSteps, outside,
                   locals, history>>

\* PerformDownload: if (mCompletionCallback) mCompletionCallback(...); with
\* a callback whose body calls SetCompletionCallback on the downloader. The
\* worker holds mMutex through its lock_guard.
W_CallbackReenters(w) ==
    /\ At(w, "callback")
    /\ mCompletionCallback
    /\ cb' = [cb EXCEPT ![w] = Append(@, CallbackArgs(w))]
    /\ wpc' = [wpc EXCEPT ![w] = "cb_scb_lock"]
    /\ UNCHANGED <<mState, mProgress, mTotalBytes, mCancelRequested,
                   mThreadRunning, mErrorMessage, mMutex, terminated, disk,
                   locals, srvCode, WorkerFrame>>

\* SetCompletionCallback on the worker thread, inside the callback:
\* std::lock_guard<std::mutex> lock(mMutex) on a mutex the thread owns. The
\* behaviour is undefined: the thread blocks for ever, or the lock throws
\* and the exception ends the process, or an implementation that counts the
\* owner's locks grants it, mCompletionCallback = callback runs and the
\* callback returns into PerformDownload.
CB_SCB_Lock(w) ==
    /\ At(w, "cb_scb_lock")
    /\ \/ /\ wpc' = [wpc EXCEPT ![w] = "cb_blocked"]
          /\ UNCHANGED <<mCompletionCallback, cbStable, terminated>>
       \/ /\ terminated' = "std::terminate"
          /\ UNCHANGED <<mCompletionCallback, cbStable, wpc>>
       \/ \E fn \in BOOLEAN :
            /\ mCompletionCallback' = fn
            /\ cbStable' = [v \in Workers |->
                              IF wpc[v] = "done" THEN cbStable[v]
                              ELSE cbStable[v] /\ fn]
            /\ wpc' = [wpc EXCEPT ![w] = "return"]
            /\ UNCHANGED terminated
    /\ UNCHANGED <<mState, mProgress, mDownloadedBytes, mTotalBytes,
                   mCancelRequested, mThreadRunning, mErrorMessage, mCurrentUrl,
                   mMutex, mDownloadThread, disk, caller, wjob, locals, srvCode,
                   cb, jobs, destAtStart, sdEntryState, cancelHit, cancelledJob,
                   sdActive, outside>>

NextApp ==
    \/ Next
    \/ CallGetError
    \/ GE_Read
    \/ CallUpdate
    \/ MP_Update
    \/ \E w \in Workers : W_CallbackReenters(w)
    \/ \E w \in Workers : CB_SCB_Lock(w)

SpecApp == Init /\ [][NextApp]_vars

\* ------------------------------------------ the title/artist queries
\* Frames (or malformed frame headers) in one generated tag body.
MaxFrames == 2

\* n as the 4 size bytes of a tag header (7 bits each) and of a frame header
\* (big-endian); t followed by the byte c up to the 30 bytes of a field.
SynchsafeBytes(n) ==
    <<(n \div 2^21) % 128, (n \div 2^14) % 128, (n \div 2^7) % 128, n % 128>>
BigEndianBytes(n) ==
    <<(n \div 2^24) % 256, (n \div 2^16) % 256, (n \div 2^8) % 256, n % 256>>
Fill(n, c) == [i \in 1..n |-> c]
Pad(t, c) == t \o Fill(FieldLen - Len(t), c)

\* "Hello", "Artist", "Song", "Band", "TALB"
Hello == <<72, 101, 108, 108, 111>>
ArtistText == <<65, 114, 116, 105, 115, 116>>
Song == <<83, 111, 110, 103>>
Band == <<66, 97, 110, 100>>
TALB == <<84, 65, 76, 66>>

\* A frame: identifier, size, two flag bytes, content. Sizes are below 128,
\* where the synchsafe and the big-endian size bytes coincide.
Frame(id, content) ==
    [bytes |-> id \o BigEndianBytes(Len(content)) \o <<0, 0>> \o content,
     frames |-> <<[id |-> id, content |-> content]>>,
     wf |-> TRUE]
Raw(bytes) == [bytes |-> bytes, frames |-> <<>>, wf |-> FALSE]
\* Frame contents: encoding byte 0 and "Hello"; encoding 3 and "Yo"; the
\* encoding byte alone; a text with an embedded null.
Contents == {<<0>> \o Hello, <<3, 89, 111>>, <<0>>, <<0, 72, 0, 88>>}
WellFormedChunks ==
    {Frame(id, c) : id \in {TIT2, TPE1}, c \in Contents} \cup {Frame(TALB, <<0, 65>>)}
\* Frame headers that are not well formed: top bit set in the size; size 0;
\* size beyond the body; a header cut short; size bytes all 0xFF; a null
\* inside the identifier.
MalformedChunks ==
    {Raw(TIT2 \o <<128, 0, 0, 6>> \o <<0, 0>> \o <<0>> \o Hello),
     Raw(TIT2 \o <<0, 0, 0, 0>> \o <<0, 0>>),
     Raw(TIT2 \o <<0, 0, 0, 100>> \o <<0, 0>> \o <<0, 72>>),
     Raw(<<84, 73, 84, 50, 0>>),
     Raw(TPE1 \o <<255, 255, 255, 255>> \o <<0, 0>> \o <<0, 72>>),
     Raw(<<84, 73, 0, 50>> \o <<0, 0, 0, 3>> \o <<0, 0>> \o <<0, 72, 105>>)}
Chunks == WellFormedChunks \cup MalformedChunks
ChunkSeqs == UNION {[1..n -> Chunks] : n \in 0..MaxFrames}

RECURSIVE CatBytes(_)
CatBytes(cs) == IF cs = <<>> THEN <<>> ELSE Head(cs).bytes \o CatBytes(Tail(cs))
RECURSIVE CatFrames(_)
CatFrames(cs) == IF cs = <<>> THEN <<>> ELSE Head(cs).frames \o CatFrames(Tail(cs))
\* Tag bodies: the chunks, then no padding or a padding region.
Bodies ==
    {[bytes |-> CatBytes(cs) \o pad, frames |-> CatFrames(cs),
      wf |-> \A i \in 1..Len(cs) : cs[i].wf] :
        cs \in ChunkSeqs, pad \in {<<>>, Fill(12, CH_NUL)}}

\* A file starting with a tag header of the given version and size bytes.
V2File(ver, sizeBytes, body, tail) ==
    [exists |-> TRUE,
     bytes |-> ID3 \o <<ver, 0, 0>> \o sizeBytes \o body.bytes \o tail,
     wf |-> body.wf /\ ver \in {3, V24} /\ sizeBytes = SynchsafeBytes(Len(body.bytes)),
     frames |-> body.frames]
OtherFile(bytes) == [exists |-> TRUE, bytes |-> bytes, wf |-> FALSE, frames |-> <<>>]

\* The 128-byte trailer: "TAG", title, artist, then album/year/comment/genre.
Trailer(t, a) == TAG \o t \o a \o Fill(TrailerLen - 3 - 2 * FieldLen, CH_NUL)
\* Fields: space padded, null padded, empty, a null before a non-padding
\* character, mixed padding, no padding at all.
Fields == {Pad(Song, CH_SPACE), Pad(Band, CH_NUL), Fill(FieldLen, CH_SPACE),
           Pad(<<65, 0, 66>>, CH_SPACE), Pad(Song \o <<32, 0, 32>>, CH_NUL),
           Fill(FieldLen, 120)}
\* What a file ends with: nothing, a trailer, 128 bytes without the marker,
\* a marker with fewer than 128 bytes.
Tails ==
    {<<>>, <<84, 65, 88>> \o Fill(TrailerLen - 3, CH_NUL), TAG \o Pad(Song, CH_SPACE)}
    \cup {Trailer(t, a) : t, a \in Fields}
\* What a file without a readable frame tag starts with: nothing, 3 bytes,
\* 10 bytes other than "ID3", a tag header announcing more than the file has.
Heads ==
    {<<>>, <<1, 2, 3>>, <<73, 68, 52, 3, 0, 0, 0, 0, 0, 5>>,
     ID3 \o <<3, 0, 0, 255, 255, 255, 255>>}
\* Size bytes a header may carry for a body of n bytes: exact, exact with
\* every top bit set, too small, too large, the bytes {0,0,2,1}, all 0xFF.
SizeBytesFor(n) ==
    {SynchsafeBytes(n), [i \in 1..4 |-> SynchsafeBytes(n)[i] + 128],
     SynchsafeBytes(n - 2), SynchsafeBytes(n + 5), <<0, 0, 2, 1>>,
     <<255, 255, 255, 255>>}
TwoFrames ==
    [bytes |-> CatBytes(<<Frame(TIT2, <<0>> \o Hello), Frame(TPE1, <<0>> \o ArtistText)>>),
     frames |-> CatFrames(<<Frame(TIT2, <<0>> \o Hello), Frame(TPE1, <<0>> \o ArtistText)>>),
     wf |-> TRUE]

\* "Yo" after the encoding byte 3.
Yo == <<3, 89, 111>>
\* A body whose first frame carries size bytes that read differently as
\* synchsafe and as big-endian; `content` has a "Yo" title frame where the
\* smaller reading ends, and a "Hello" title frame follows the content.
LongBody(sizeBytes, content) ==
    [bytes |-> TALB \o sizeBytes \o <<0, 0>> \o content
               \o Frame(TIT2, <<0>> \o Hello).bytes,
     frames |-> <<>>, wf |-> FALSE]
\* {0,0,1,0}: 128 synchsafe, 256 big-endian; {0,0,0,130}: 2 and 130.
LongBodies ==
    {LongBody(<<0, 0, 1, 0>>,
              Fill(128, 65) \o Frame(TIT2, Yo).bytes \o Fill(115, 65)),
     LongBody(<<0, 0, 0, 130>>,
              <<0, 65>> \o Frame(TIT2, Yo).bytes \o Fill(115, 65))}

\* "/a/b.m", "b", "d.x\c.y.z", "/a.b/c", ".m"
Paths == {<<47, 97, 47, 98, 46, 109>>, <<98>>,
          <<100, 46, 120, 92, 99, 46, 121, 46, 122>>,
          <<47, 97, 46, 98, 47, 99>>, <<46, 109>>}
SomePath == <<47, 97, 47, 98, 46, 109>>

\* mCurrentFilePath and the file found there when a query runs.
TagInputs ==
    ({SomePath} \X {V2File(ver, SynchsafeBytes(Len(b.bytes)), b, <<>>) :
                        ver \in {3, V24}, b \in Bodies})
    \cup ({SomePath} \X {V2File(ver, sz, TwoFrames, tail) :
                        ver \in {0, 2, 3, V24},
                        sz \in SizeBytesFor(Len(TwoFrames.bytes)),
                        tail \in {<<>>, <<255, 251, 0, 0, 0, 0>>, Trailer(Pad(Song, CH_SPACE), Pad(Band, CH_SPACE))}})
    \cup ({SomePath} \X {V2File(ver, SynchsafeBytes(Len(b.bytes)), b, <<>>) :
                        ver \in {0, 2, 3, V24, 5}, b \in LongBodies})
    \cup (Paths \X ({OtherFile(h \o t) : h \in Heads, t \in Tails} \cup {NoFile}))
    \cup ({<<>>} \X {NoFile, V2File(3, SynchsafeBytes(Len(TwoFrames.bytes)), TwoFrames, <<>>)})

InitTag ==
    /\ Constructed
    /\ destFile = Absent
    /\ raceLimit = MaxRaceSteps
    /\ \E in \in TagInputs : mCurrentFilePath = in[1] /\ musicFile = in[2]
    /\ query = NoQuery
    /\ mMusic = IF mCurrentFilePath = <<>> THEN "null" ELSE "loaded"

\* What a query returns after reading outside its buffer: any text.
UndefinedTexts == {<<>>, <<63>>}
DownloaderVars == <<fields, terminated, disk, caller, wpc, wjob, raceSteps,
                    locals, history, raceLimit>>

\* std::string GetCurrentTrackName() const
GetCurrentTrackName ==
    /\ LET r == TrackName(mCurrentFilePath, musicFile) IN
         \E t \in (IF r.v2.oob THEN UndefinedTexts ELSE {r.result}) :
            query' = [op |-> "title", result |-> t, v2 |-> r.v2, v1 |-> r.v1]
    /\ UNCHANGED <<DownloaderVars, mCurrentFilePath, musicFile, mMusic>>

\* std::string GetCurrentArtist() const
GetCurrentArtist ==
    /\ LET r == Artist(mCurrentFilePath, musicFile) IN
         \E t \in (IF r.v2.oob THEN UndefinedTexts ELSE {r.result}) :
            query' = [op |-> "artist", result |-> t, v2 |-> r.v2, v1 |-> r.v1]
    /\ UNCHANGED <<DownloaderVars, mCurrentFilePath, musicFile, mMusic>>

NextTag ==
    \/ GetCurrentTrackName
    \/ GetCurrentArtist

SpecTag == InitTag /\ [][NextTag]_vars

\* ------------------------------------------------------------- claims
\* The slot of the worker of the current job window.
cur == Slot(jobs)
\* The current job's worker has been spawned and has returned.
CurDone == jobs >= 1 /\ wjob[cur] = jobs /\ wpc[cur] = "done"
\* sub occurs in seq as a contiguous run.
Contains(seq, sub) ==
    \E i \in 1..(Len(seq) - Len(sub) + 1) : SubSeq(seq, i, i + Len(sub) - 1) = sub
\* The step is StartDownload's own mState.store(BGM_DOWNLOADING).
IsStartReset == callerPc = "sd_state" /\ callerPc' = "sd_counters"

\* C1: within one job (between StartDownload's store of Downloading and the
\* next one) every change of the state is Downloading -> Complete, Error or
\* Cancelled; a terminal state is never replaced by another value.
C1_StateMonotonic ==
    [][(mState' # mState /\ ~IsStartReset)
         => (mState = "Downloading" /\ mState' \in Terminal)]_vars

\* C2: at most one worker thread is running at any time.
C2_OneWorkerAtATime ==
    \A v, w \in Workers : (Running(v) /\ Running(w)) => v = w

\* C3: with a callback installed from before StartDownload on, a worker that
\* has returned has invoked it exactly once, with (true, "") on the success
\* path and with false on every other path; it is never invoked twice.
C3_CallbackExactlyOnce ==
    \A w \in Workers :
        /\ Len(cb[w]) <= 1
        /\ (wpc[w] = "done" /\ exit[w] # "none" /\ cbStable[w]) =>
              /\ Len(cb[w]) = 1
              /\ cb[w][1].ok = (exit[w] = "success")
              /\ cb[w][1].ok => cb[w][1].msg = <<>>

\* C3's case: a worker whose transfer the progress callback aborted has
\* returned after reporting the engine's error text, once.
C3_Witness ==
    \E w \in Workers :
        /\ wpc[w] = "done" /\ exit[w] = "engine" /\ cbStable[w]
        /\ cb[w] = <<[ok |-> FALSE, msg |-> StrError("ABORTED")]>>

\* C4: the destination is what it was when the job began or the complete
\* new content; it is never missing or partial in between.
C4_DestOldOrNew ==
    destFile = destAtStart \/ (IsComplete(destFile) /\ destFile.job >= 1)

\* C5: after a worker run that ended on a failing path the destination is
\* what it was when StartDownload was called.
C5_FailureKeepsDest ==
    (CurDone /\ exit[cur] \in ErrorPaths) => destFile = destAtStart

\* C6: when Cancel() ran while the state was Downloading, then after the
\* worker has returned the state is Cancelled and the destination is what it
\* was when StartDownload was called.
C6_CancelledStaysCancelled ==
    (CurDone /\ cancelHit /\ callerPc = "idle") =>
        (mState = "Cancelled" /\ destFile = destAtStart)

\* C7: StartDownload entered in a terminal state never ends in
\* std::terminate(), and has on return spawned the job's worker and stored
\* its thread.
C7_RestartFromTerminal ==
    sdEntryState \in Terminal =>
        /\ terminated # "std::terminate"
        /\ callerOp # "start" => (wjob[cur] = jobs /\ mDownloadThread = cur)

\* C8: progress is 1.0 exactly when the state is Complete.
C8_ProgressOneIffComplete ==
    Alive => (IsOne(mProgress) <=> mState = "Complete")

\* C9: a transfer that succeeded with a status other than 200 ends in Error
\* on the status path, the message holding the server's status in decimal,
\* the temporary file removed, the callback told (false, message), and the
\* destination what it was when StartDownload was called.
C9_Non200IsError ==
    (CurDone /\ srvCode[cur] \notin {0, HTTP_OK} /\ ~cancelHit /\ callerPc = "idle") =>
        /\ exit[cur] = "http"
        /\ mState = "Error"
        /\ Contains(mErrorMessage, to_string(srvCode[cur]))
        /\ ~tempFile.exists
        /\ cbStable[cur] => cb[cur] = <<[ok |-> FALSE, msg |-> mErrorMessage]>>
        /\ destFile = destAtStart

\* C10: from the invocation of the current job's completion callback on, the
\* state is Complete, Error or Cancelled.
C10_TerminalAfterCallback ==
    (jobs >= 1 /\ wjob[cur] = jobs /\ Len(cb[cur]) > 0) => mState \in Terminal

\* C10's case: the callback has fired on a failing path and the worker has
\* not yet returned.
C10_Witness ==
    /\ jobs >= 1 /\ wjob[cur] = jobs /\ Len(cb[cur]) = 1
    /\ wpc[cur] = "return" /\ exit[cur] = "engine" /\ mState = "Error"

\* C11: during one job GetProgress() never decreases: the only step that
\* lowers mProgress is StartDownload's own reset (mProgress.store(0.0f)),
\* the engine's downloaded count being non-decreasing and its total fixed.
StartResetsCounters == callerPc = "sd_counters" /\ callerPc' = "sd_errmsg"
C11_ProgressNonDecreasing ==
    [][~StartResetsCounters => ~Less(mProgress', mProgress)]_vars

\* C12: Cancel() that reads a state other than Downloading returns with no
\* field of the object and no file changed; Cancel() that reads Downloading
\* stores mCancelRequested = true, then mState = Cancelled, and each of its
\* steps changes nothing else.
CancelStep == callerPc \in {"c_check", "c_flag", "c_state"} /\ callerPc' # callerPc
CancelTouches(changed) ==
    /\ "mState" \notin changed => mState' = mState
    /\ "mCancelRequested" \notin changed => mCancelRequested' = mCancelRequested
    /\ UNCHANGED <<mProgress, mDownloadedBytes, mTotalBytes, mThreadRunning,
                   mErrorMessage, mCurrentUrl, mMutex, mCompletionCallback,
                   mDownloadThread, disk, terminated>>
C12_CancelFrame ==
    [][CancelStep =>
        /\ (callerPc = "c_check" /\ ~IsDownloading) =>
              (CancelTouches({}) /\ callerPc' \in {"idle", "sd_join"})
        /\ (callerPc = "c_check" /\ IsDownloading) =>
              (CancelTouches({}) /\ callerPc' = "c_flag")
        /\ callerPc = "c_flag" =>
              (CancelTouches({"mCancelRequested"}) /\ mCancelRequested' /\ callerPc' = "c_state")
        /\ callerPc = "c_state" =>
              (CancelTouches({"mState"}) /\ mState' = "Cancelled" /\ mCancelRequested'
               /\ callerPc' \in {"idle", "sd_join"})]_vars
\* Cancel() from the application has returned after cancelling a transfer
\* that had delivered data and is still in the engine.
C12_Witness ==
    /\ callerPc = "idle" /\ cancelHit /\ cancelledJob = jobs
    /\ mState = "Cancelled" /\ mCancelRequested
    /\ wpc[cur] = "perform" /\ dlnow[cur] > 0 /\ ~IsOne(mProgress) /\ mTotalBytes = Size

\* The trailer format is present: the file can be read, has at least 128
\* bytes, and its last 128 bytes start with "TAG".
LastBytes(f) == SubSeq(f.bytes, Len(f.bytes) - TrailerLen + 1, Len(f.bytes))
TrailerPresent(f) ==
    f.exists /\ Len(f.bytes) >= TrailerLen /\ SubSeq(LastBytes(f), 1, 3) = TAG
\* The path with its directory prefix and its last extension stripped.
Stem(path) ==
    LET seps == {i \in 1..Len(path) : path[i] \in {CH_SLASH, CH_BACKSLASH}}
        name == IF seps = {} THEN path ELSE SubSeq(path, Max(seps) + 1, Len(path))
        dots == {i \in 1..Len(name) : name[i] = CH_DOT}
    IN IF dots = {} THEN name ELSE SubSeq(name, 1, Max(dots) - 1)
Asked == query.op # "none" /\ mCurrentFilePath # <<>>

RECURSIVE BeforeNull(_)
BeforeNull(s) ==
    IF s = <<>> \/ Head(s) = CH_NUL THEN <<>> ELSE <<Head(s)>> \o BeforeNull(Tail(s))
\* The text of the first frame named id whose size exceeds 1, its encoding
\* byte skipped; empty when there is none.
FirstText(frames, id) ==
    LET m == {i \in 1..Len(frames) : frames[i].id = id /\ Len(frames[i].content) > 1}
    IN IF m = {} THEN <<>> ELSE BeforeNull(Tail(frames[Min(m)].content))

\* C14: for a well-formed tag body the ID3v2 title (artist) is the content of
\* the first TIT2 (TPE1) frame of size > 1, without its encoding byte and cut
\* at the first 0x00; frames after it are not used.
C14_FirstMatchingFrame ==
    (Asked /\ musicFile.wf) =>
      /\ query.v2.searched
      /\ query.v2.text =
            FirstText(musicFile.frames, IF query.op = "title" THEN TIT2 ELSE TPE1)
\* Two TIT2 frames, "Yo" after "Hello": the title is "Hello".
C14_Witness ==
    /\ query.op = "title" /\ musicFile.wf
    /\ musicFile.frames = <<[id |-> TIT2, content |-> <<0>> \o Hello],
                            [id |-> TIT2, content |-> <<3, 89, 111>>]>>
    /\ query.result = Hello

\* s without its trailing run of space and null bytes.
RECURSIVE RTrim(_)
RTrim(s) ==
    IF s = <<>> THEN <<>>
    ELSE IF s[Len(s)] \in {CH_SPACE, CH_NUL} THEN RTrim(SubSeq(s, 1, Len(s) - 1))
    ELSE s

\* C15: when the trailer is present the trailer read succeeds with title =
\* trailer bytes 3..32 and artist = bytes 33..62, each without its trailing
\* run of spaces and nulls and otherwise unchanged; otherwise it reports the
\* trailer absent.
C15_TrailerFields ==
    query.v1.called =>
      IF TrailerPresent(musicFile)
      THEN /\ query.v1.ok
           /\ query.v1.title = RTrim(SubSeq(LastBytes(musicFile), 4, 3 + FieldLen))
           /\ query.v1.artist =
                 RTrim(SubSeq(LastBytes(musicFile), 4 + FieldLen, 3 + 2 * FieldLen))
      ELSE ~query.v1.ok

\* C16: the frame search reads tagData only at indices in [0, tagSize); when
\* the first identifier starts with a zero byte it reads nothing further, and
\* when the first frame's size is <= 0 (a big-endian size with the top bit
\* set included) or exceeds what remains after the 10-byte frame header it
\* stops after that header; either way it returns the empty text.
C16_ReadsInsideBody ==
    query.v2.searched =>
      LET tagSize == query.v2.tagSize
          body == SubSeq(musicFile.bytes, HeaderLen + 1, HeaderLen + tagSize)
          size == FrameSize(musicFile.bytes[4], SubSeq(body, 5, 8))
      IN /\ ~query.v2.oob
         /\ query.v2.reads \subseteq 0..(tagSize - 1)
         /\ (tagSize > HeaderLen /\ body[1] = CH_NUL) =>
               (query.v2.text = <<>> /\ query.v2.reads \subseteq 0..3)
         /\ (tagSize > HeaderLen /\ body[1] # CH_NUL
              /\ (size <= 0 \/ size > tagSize - HeaderLen)) =>
               (query.v2.text = <<>> /\ query.v2.reads = 0..7)
\* A version-3 body whose first frame has the top bit of its size set: the
\* search stopped after the frame header.
C16_Witness ==
    /\ query.v2.searched /\ musicFile.bytes[4] = 3
    /\ Len(musicFile.bytes) >= 2 * HeaderLen
    /\ SubSeq(musicFile.bytes, HeaderLen + 5, HeaderLen + 8) = <<128, 0, 0, 6>>
    /\ query.v2.reads = 0..7 /\ query.result = <<98>> /\ query.op = "title"

\* C17: the tag size is the low 7 bits of header bytes 6..9 concatenated, so
\* it lies in [0, 2^28 - 1]; bytes {0,0,2,1} give 257.
C17_SynchsafeTagSize ==
    query.v2.sizeBytes # <<>> =>
      LET b == query.v2.sizeBytes IN
      /\ query.v2.tagSize =
            (b[1] % 128) * 2^21 + (b[2] % 128) * 2^14 + (b[3] % 128) * 2^7 + (b[4] % 128)
      /\ query.v2.tagSize \in 0..(2^28 - 1)
      /\ b = <<0, 0, 2, 1>> => query.v2.tagSize = 257
\* A header with size bytes {0,0,2,1} was decoded.
C17_Witness ==
    /\ query.op # "none"
    /\ SubSeq(musicFile.bytes, 7, 10) = <<0, 0, 2, 1>>
    /\ query.v2.sizeBytes = <<0, 0, 2, 1>> /\ query.v2.tagSize = 257

\* C18: a progress callback that finds the cancellation flag clear and is
\* given a positive total leaves GetTotalBytes() = dltotal,
\* GetDownloadedBytes() = dlnow and GetProgress() = dlnow / dltotal.
C18_ProgressCallbackStores ==
    [][\A w \in Workers :
         (wpc[w] = "progress_store" /\ wpc'[w] = "perform" /\ dltotal[w] > 0) =>
           /\ mTotalBytes' = dltotal[w]
           /\ mDownloadedBytes' = dlnow[w]
           /\ mProgress' = Frac(dlnow[w], dltotal[w])]_vars

\* C19: once Cancel() has stored the cancellation flag, every later progress
\* callback of that job's worker returns abort (curl_easy_perform fails with
\* CURLE_ABORTED_BY_CALLBACK) and stores no counter.
C19_CancelAborts ==
    [][\A w \in Workers :
         (cancelledJob # 0 /\ wjob[w] = cancelledJob
          /\ wpc[w] = "progress" /\ wpc'[w] # "progress") =>
           /\ wpc'[w] = "close" /\ res'[w] = "ABORTED"
           /\ UNCHANGED <<mProgress, mDownloadedBytes, mTotalBytes>>]_vars

\* C20: when StartDownload reads the state Downloading it cancels and joins:
\* the join returns only when the prior worker has returned (its completion
\* callback, if one was installed throughout, invoked once); from then on only
\* the new job's worker runs, so no earlier worker stores over the reset; and
\* when the new thread is constructed the state is Downloading, progress 0,
\* both byte counters 0, the error message empty and the flag clear.
AfterJoin == sdActive /\ callerPc \notin {"sd_check", "c_check", "c_flag", "c_state", "sd_join"}
C20_State ==
    /\ AfterJoin => \A w \in Workers : Running(w) => wjob[w] = jobs
    /\ (AfterJoin /\ callerPc = "sd_spawn") =>
          /\ mState = "Downloading"
          /\ mProgress = Zero
          /\ mDownloadedBytes = 0
          /\ mTotalBytes = 0
          /\ mErrorMessage = <<>>
          /\ ~mCancelRequested
JoinReturns == callerPc = "sd_join" /\ callerPc' = "sd_url"
C20_RestartWhileActive ==
    /\ []C20_State
    /\ [][JoinReturns =>
            /\ mDownloadThread # 0
            /\ wjob[mDownloadThread] = jobs - 1
            /\ wpc[mDownloadThread] = "done"
            /\ cbStable[mDownloadThread] => Len(cb[mDownloadThread]) = 1]_vars
\* The second StartDownload found the first transfer under way, joined its
\* aborted worker and stands at the construction of the new thread.
C20_Witness ==
    /\ sdActive /\ callerPc = "sd_spawn" /\ jobs = 2
    /\ wjob[Slot(1)] = 1 /\ wpc[Slot(1)] = "done"
    /\ mDownloadThread = 0 /\ tempFile = Absent /\ destFile = destAtStart

\* ------------------------------------------------------------ C21
\* The caller's next step reads or writes mErrorMessage: the reset of
\* StartDownload, or the read through the reference GetError returned.
CallerAtError == callerPc \in {"sd_errmsg", "ge_read"}

\* Worker w's next step writes mErrorMessage, or reads it for the callback.
WorkerAtError(w) == wpc[w] \in {"errmsg", "callback"} /\ exit[w] \in ErrorPaths

\* C21: the error message is only read or written with the mutex held: the
\* caller is never about to read or write mErrorMessage, holding no lock,
\* while a worker is about to write it or to read it for the callback.
C21_ErrorMessageLocked ==
    ~(Alive /\ CallerAtError /\ \E w \in Workers : WorkerAtError(w))

\* ------------------------------------------------------------ C22
\* The 4 size bytes of the frame header at `offset` of the tag body.
SizeBytesAt(offset) ==
    SubSeq(musicFile.bytes, HeaderLen + offset + 5, HeaderLen + offset + 8)
\* 7 bits of each byte, most significant first.
SevenBits(b) ==
    (b[1] % 128) * 2^21 + (b[2] % 128) * 2^14 + (b[3] % 128) * 2^7 + (b[4] % 128)
\* The 4 bytes as a big-endian 32-bit integer (two's complement).
PlainBigEndian(b) ==
    (IF b[1] < 128 THEN b[1] ELSE b[1] - 256) * 2^24
    + b[2] * 2^16 + b[3] * 2^8 + b[4]

\* C22: every frame a title or artist search decodes has its size read as
\* synchsafe exactly when the header's version byte is 4 and as big-endian
\* for every other version, and the next frame is looked for at
\* offset + 10 + size.
C22_FrameSizeByVersion ==
    (query.op # "none" /\ query.v2.searched) =>
      LET seen == query.v2.seen
          ver == musicFile.bytes[4]
      IN
      /\ \A i \in 1..Len(seen) :
            seen[i].size = IF ver = V24
                           THEN SevenBits(SizeBytesAt(seen[i].offset))
                           ELSE PlainBigEndian(SizeBytesAt(seen[i].offset))
      /\ \A i \in 1..(Len(seen) - 1) :
            seen[i + 1].offset = seen[i].offset + HeaderLen + seen[i].size

\* A version-4 title search steps over a frame whose size bytes read
\* otherwise as big-endian, and finds the title where the synchsafe size ends.
C22_Witness ==
    /\ query.op = "title" /\ query.v2.searched
    /\ musicFile.bytes[4] = V24
    /\ Len(query.v2.seen) >= 2
    /\ query.v2.seen[1].size >= 128
    /\ PlainBigEndian(SizeBytesAt(0)) # query.v2.seen[1].size
    /\ query.v2.seen[2].offset = HeaderLen + query.v2.seen[1].size
    /\ query.result = <<89, 111>>

\* ------------------------------------------------------------ C23
\* The application thread is inside a MusicPlayer operation.
InPlayer == callerPc = "mp_update"

\* C23: the player's handle and path are never touched by two threads at
\* once: while the application thread is inside MusicPlayer::Update, no
\* worker is inside LoadMusic.
C23_PlayerOneThread ==
    ~(Alive /\ InPlayer /\ \E w \in Workers : InLoadMusic(w))

\* ------------------------------------------------------------ C24
\* C24: once a worker run has returned, whatever its exit path, the
\* temporary file that run created no longer exists.
C24_TempFileGone ==
    \A w \in Workers :
       (wpc[w] = "done" /\ exit[w] \in ErrorPaths \cup {"success"})
          => ~(tempFile.exists /\ tempFile.job = wjob[w])

\* ------------------------------------------------------------ C25
\* Worker w is blocked in SetCompletionCallback's lock on a mutex it owns
\* itself: nothing releases it, the call never returns.
BlockedOnOwnMutex(w) == wpc[w] = "cb_blocked" /\ mMutex = w

\* C25: SetCompletionCallback always returns: no thread is ever blocked for
\* good in its lock, also when the call comes from inside the completion
\* callback.
C25_SetCallbackReturns == \A w \in Workers : ~BlockedOnOwnMutex(w)

====
